---- MODULE Spec2Model ----
(***************************************************************************)
(* A model of the separate-chaining hash map of src/src/hash_map.c.        *)
(*                                                                         *)
(* Pointers are small integers, 0 being NULL.  A key pointer p addresses   *)
(* an int, Deref(p); several pointers address equal ints, so that pointer  *)
(* identity and key equality are different things, as in the C code.  The  *)
(* map is used with hash_int / compare_int.  A chain is the sequence of    *)
(* its nodes from the head; a node's `next` link is its successor in the   *)
(* sequence.  malloc and calloc may fail: their outcome is an input of the *)
(* operation that calls them.  Destructors (free_func_t callbacks) are     *)
(* modelled by what they are called on: every call is counted.             *)
(***************************************************************************)
EXTENDS Integers, Sequences, FiniteSets, TLC

\* ---------------------------------------------------------------- bounds
\* Number of distinct key contents the caller uses.
NumContents == 2
\* Number of distinct non-null value pointers the caller uses.
NumValues == 2
\* Largest explicit initial_capacity passed to map_create.
MaxInitCap == 3
\* Number of distinct int keys the caller puts into a map of the default
\* capacity (one more than the 12 it holds without a resize).
NumFill == 13
\* The initial capacities the caller asks for: 0 (the default, 16 buckets:
\* no resize, the contents apart), 1 (a resize on the first insert) and the
\* largest (contents sharing a bucket, resizes that move whole chains).
InitCaps == {0, 1, MaxInitCap}

\* ------------------------------------------------------ program constants
NULL == 0

MAP_SUCCESS == 0
MAP_FAILURE == 1
MAP_KEY_NOT_FOUND == 2
MAP_ALLOCATION_ERROR == 3

INITIAL_CAPACITY == 16
RESIZE_FACTOR == 2

\* LOAD_FACTOR_THRESHOLD is 0.75 = 3/4; (double)n / capacity > 0.75 is
\* decided here in exact integer arithmetic (both agree while n and
\* capacity are far below 2^52).
ExceedsLoadFactor(n, capacity) == 4 * n > 3 * capacity

\* ------------------------------------------------------- the caller's heap
\* Key pointers the caller hands to map_insert: two allocations per content
\* (a key and a second allocation with the same content, like key1 and
\* key1_update in main.c).
InsertKeys == 1..(2 * NumContents)
\* Key pointers the caller keeps for lookups only (like the string literals
\* passed to map_get / map_delete in main.c): one per content.
LookupKeys == (2 * NumContents + 1)..(3 * NumContents)
KeyPtrs == InsertKeys \cup LookupKeys
ValuePtrs == 1..NumValues
\* Key pointers to distinct ints (like &i_key1, &i_key2, ... in main.c),
\* used to fill a map of the default capacity.
FillKeys == (3 * NumContents + 1)..(3 * NumContents + NumFill)

\* The int a key pointer addresses: contents 0, 6, 12, ... share a bucket in
\* capacities 1, 2, 3 and 6 and are apart in capacities 4, 8 and 16; the
\* fill keys address 101, 102, ...
Deref(p) ==
    IF p \in FillKeys THEN 100 + (p - 3 * NumContents)
    ELSE 6 * ((p - 1) % NumContents)
Contents == {Deref(p) : p \in KeyPtrs}
FillContents == {Deref(p) : p \in FillKeys}

\* ------------------------------------------------------------ hash_map.c
\* unsigned long hash_int(const void *key): the int itself (contents are
\* non-negative here, so the cast changes nothing).
hash_int(key) == Deref(key)

\* int compare_int(const void *key1, const void *key2)
compare_int(key1, key2) == Deref(key1) - Deref(key2)

\* No map: what a NULL map_t* is, and what map_create returns on error.
NullMap ==
    [isnull |-> TRUE, capacity |-> 0, size |-> 0, buckets |-> <<>>,
     key_free_func |-> FALSE, value_free_func |-> FALSE]

EmptyBuckets(capacity) == [i \in 0..(capacity - 1) |-> <<>>]

\* static map_node_t *_map_node_create(key, value): the node, or <<>> for
\* NULL when malloc fails.  A node's `next` is its successor in its chain.
_map_node_create(key, value, malloc_ok) ==
    IF ~malloc_ok THEN <<>> ELSE [key |-> key, value |-> value]

\* static void _map_node_destroy(node, key_free_func, value_free_func):
\* the pointers the two destructors are called on.
_map_node_destroy(node, key_free_func, value_free_func) ==
    [kfreed |-> IF key_free_func /\ node.key # NULL THEN <<node.key>> ELSE <<>>,
     vfreed |-> IF value_free_func /\ node.value # NULL THEN <<node.value>> ELSE <<>>]

\* static size_t _map_get_bucket_index(map, key)
_map_get_bucket_index(map, key) == hash_int(key) % map.capacity

\* The nodes of buckets i, i+1, ..., capacity-1, each chain from its head:
\* the order in which the loops of _map_resize, map_destroy and map_iterate
\* meet them.
RECURSIVE ChainsFrom(_, _, _)
ChainsFrom(buckets, i, capacity) ==
    IF i >= capacity THEN <<>>
    ELSE buckets[i] \o ChainsFrom(buckets, i + 1, capacity)

AllNodes(map) == ChainsFrom(map.buckets, 0, map.capacity)

\* Relink that keeps every node at its index under the old capacity.
RECURSIVE RelinkStaleIndex(_, _, _)
RelinkStaleIndex(map, nodes, i) ==
    IF i > Len(nodes) THEN map
    ELSE LET new_index == hash_int(nodes[i].key) % (map.capacity \div 2)
         IN  RelinkStaleIndex([map EXCEPT !.buckets[new_index] = <<nodes[i]>> \o @,
                                          !.size = @ + 1],
                              nodes, i + 1)

\* Relink that does not count the nodes it links.
RECURSIVE RelinkUncounted(_, _, _)
RelinkUncounted(map, nodes, i) ==
    IF i > Len(nodes) THEN map
    ELSE LET new_index == _map_get_bucket_index(map, nodes[i].key)
         IN  RelinkUncounted([map EXCEPT !.buckets[new_index] = <<nodes[i]>> \o @],
                             nodes, i + 1)

\* The body of the rehash loop of _map_resize: each node in turn is linked
\* at the head of its new bucket and counted.
RECURSIVE Relink(_, _, _)
Relink(map, nodes, i) ==
    IF i > Len(nodes) THEN map
    ELSE LET new_index == _map_get_bucket_index(map, nodes[i].key)
         IN  Relink([map EXCEPT !.buckets[new_index] = <<nodes[i]>> \o @,
                                !.size = @ + 1],
                    nodes, i + 1)

\* _map_resize that switches to the new capacity before it knows that the
\* new bucket array could be allocated.
_map_resizeEarlyCapacity(map, new_capacity, calloc_ok) ==
    IF new_capacity < map.size
    THEN [res |-> MAP_FAILURE, map |-> map]
    ELSE IF ~calloc_ok
    THEN [res |-> MAP_ALLOCATION_ERROR,
          map |-> [map EXCEPT !.capacity = new_capacity, !.size = 0]]
    ELSE [res |-> MAP_SUCCESS,
          map |-> Relink([map EXCEPT !.capacity = new_capacity,
                                     !.buckets = EmptyBuckets(new_capacity),
                                     !.size = 0],
                         AllNodes(map), 1)]

\* _map_resize that leaves every chain at the index it had.
_map_resizeNoRehash(map, new_capacity, calloc_ok) ==
    IF new_capacity < map.size
    THEN [res |-> MAP_FAILURE, map |-> map]
    ELSE IF ~calloc_ok
    THEN [res |-> MAP_ALLOCATION_ERROR, map |-> map]
    ELSE [res |-> MAP_SUCCESS,
          map |-> [map EXCEPT !.capacity = new_capacity,
                              !.buckets = [i \in 0..(new_capacity - 1) |->
                                              IF i < map.capacity
                                              THEN map.buckets[i] ELSE <<>>]]]

\* static map_result_t _map_resize(map, new_capacity); calloc_ok is whether
\* the allocation of the new bucket array succeeds.
_map_resize(map, new_capacity, calloc_ok) ==
    IF new_capacity < map.size
    THEN [res |-> MAP_FAILURE, map |-> map]
    ELSE IF ~calloc_ok
    THEN [res |-> MAP_ALLOCATION_ERROR, map |-> map]
    ELSE [res |-> MAP_SUCCESS,
          map |-> Relink([map EXCEPT !.capacity = new_capacity,
                                     !.buckets = EmptyBuckets(new_capacity),
                                     !.size = 0],
                         AllNodes(map), 1)]

\* map_create that takes initial_capacity as it is, 0 included.
map_createZeroBuckets(initial_capacity, hash_null, compare_null, key_free_func, value_free_func, malloc_ok, calloc_ok) ==
    IF hash_null \/ compare_null THEN NullMap
    ELSE IF ~malloc_ok THEN NullMap
    ELSE IF ~calloc_ok THEN NullMap
    ELSE [isnull |-> FALSE, capacity |-> initial_capacity, size |-> 0,
          buckets |-> EmptyBuckets(initial_capacity),
          key_free_func |-> key_free_func,
          value_free_func |-> value_free_func]

\* map_t *map_create(initial_capacity, hash_func, compare_func,
\*                   key_free_func, value_free_func)
map_create(initial_capacity, hash_null, compare_null, key_free_func, value_free_func, malloc_ok, calloc_ok) ==
    IF hash_null \/ compare_null THEN NullMap
    ELSE IF ~malloc_ok THEN NullMap
    ELSE LET capacity == IF initial_capacity > 0 THEN initial_capacity
                         ELSE INITIAL_CAPACITY
         IN  IF ~calloc_ok THEN NullMap
             ELSE [isnull |-> FALSE, capacity |-> capacity, size |-> 0,
                   buckets |-> EmptyBuckets(capacity),
                   key_free_func |-> key_free_func,
                   value_free_func |-> value_free_func]

\* Scan that takes the last node of the chain for a match when none matches.
RECURSIVE ScanPastEnd(_, _, _)
ScanPastEnd(chain, key, i) ==
    IF i > Len(chain) THEN Len(chain)
    ELSE IF compare_int(chain[i].key, key) = 0 THEN i
    ELSE ScanPastEnd(chain, key, i + 1)

\* Scan that looks at the node at position i only.
ScanHeadOnly(chain, key, i) ==
    IF i > Len(chain) THEN 0
    ELSE IF compare_int(chain[i].key, key) = 0 THEN i
    ELSE 0

\* The scan `while (current != NULL) { if (compare_func(current->key, key)
\* == 0) ...; current = current->next; }` shared by map_insert, map_get and
\* map_delete: the position of the first match from i on, 0 if none.
RECURSIVE Scan(_, _, _)
Scan(chain, key, i) ==
    IF i > Len(chain) THEN 0
    ELSE IF compare_int(chain[i].key, key) = 0 THEN i
    ELSE Scan(chain, key, i + 1)

\* The load-factor check made on size instead of size + 1.
NeedsResizeLate(map) == ExceedsLoadFactor(map.size, map.capacity)

\* The load-factor check with >= in place of >.
NeedsResizeAtThreshold(map) == 4 * (map.size + 1) >= 3 * map.capacity

\* The load-factor check at the head of map_insert.
NeedsResize(map) == ExceedsLoadFactor(map.size + 1, map.capacity)

\* The resize step of map_insert (lines 211-217).
InsertResize(map, calloc_ok) ==
    IF NeedsResize(map)
    THEN _map_resize(map, map.capacity * RESIZE_FACTOR, calloc_ok)
    ELSE [res |-> MAP_SUCCESS, map |-> map]

\* InsertOverwrite that replaces the value without destroying the old one.
InsertOverwriteLeaks(map, index, pos, key, value) ==
    LET current == map.buckets[index][pos]
    IN  [res |-> MAP_SUCCESS,
         map |-> [map EXCEPT !.buckets[index][pos] =
                     [current EXCEPT !.key = key, !.value = value]],
         kfreed |-> IF map.key_free_func /\ current.key # key
                    THEN <<current.key>> ELSE <<>>,
         vfreed |-> <<>>,
         at |-> "overwrite"]

\* InsertOverwrite that destroys the old key without comparing it with the
\* new one.
InsertOverwriteFreesKey(map, index, pos, key, value) ==
    LET current == map.buckets[index][pos]
    IN  [res |-> MAP_SUCCESS,
         map |-> [map EXCEPT !.buckets[index][pos] =
                     [current EXCEPT !.key = key, !.value = value]],
         kfreed |-> IF map.key_free_func THEN <<current.key>> ELSE <<>>,
         vfreed |-> IF map.value_free_func /\ current.value # NULL
                    THEN <<current.value>> ELSE <<>>,
         at |-> "overwrite"]

\* The overwrite branch of map_insert (lines 224-237) on the node at
\* position pos of bucket index.
InsertOverwrite(map, index, pos, key, value) ==
    LET current == map.buckets[index][pos]
    IN  [res |-> MAP_SUCCESS,
         map |-> [map EXCEPT !.buckets[index][pos] =
                     [current EXCEPT !.key = key, !.value = value]],
         kfreed |-> IF map.key_free_func /\ current.key # key
                    THEN <<current.key>> ELSE <<>>,
         vfreed |-> IF map.value_free_func /\ current.value # NULL
                    THEN <<current.value>> ELSE <<>>,
         at |-> "overwrite"]

\* InsertLink that links the new node behind the last node of the chain.
InsertLinkAtTail(map, index, key, value, malloc_ok) ==
    LET new_node == _map_node_create(key, value, malloc_ok)
    IN  IF new_node = <<>>
        THEN [res |-> MAP_ALLOCATION_ERROR, map |-> map,
              kfreed |-> <<>>, vfreed |-> <<>>, at |-> "node"]
        ELSE [res |-> MAP_SUCCESS,
              map |-> [map EXCEPT !.buckets[index] = @ \o <<new_node>>,
                                  !.size = @ + 1],
              kfreed |-> <<>>, vfreed |-> <<>>, at |-> "link"]

\* The new-node branch of map_insert (lines 241-251).
InsertLink(map, index, key, value, malloc_ok) ==
    LET new_node == _map_node_create(key, value, malloc_ok)
    IN  IF new_node = <<>>
        THEN [res |-> MAP_ALLOCATION_ERROR, map |-> map,
              kfreed |-> <<>>, vfreed |-> <<>>, at |-> "node"]
        ELSE [res |-> MAP_SUCCESS,
              map |-> [map EXCEPT !.buckets[index] = <<new_node>> \o @,
                                  !.size = @ + 1],
              kfreed |-> <<>>, vfreed |-> <<>>, at |-> "link"]

\* map_insert that looks at the key only after the resize step.
map_insertLateKeyCheck(map, key, value, calloc_ok, malloc_ok) ==
    IF map.isnull
    THEN [res |-> MAP_FAILURE, map |-> map, kfreed |-> <<>>, vfreed |-> <<>>,
          at |-> "arg", resized |-> FALSE]
    ELSE LET rz == InsertResize(map, calloc_ok)
         IN  IF rz.res # MAP_SUCCESS
             THEN [res |-> rz.res, map |-> rz.map, kfreed |-> <<>>,
                   vfreed |-> <<>>, at |-> "resize", resized |-> FALSE]
             ELSE IF key = NULL
             THEN [res |-> MAP_FAILURE, map |-> rz.map, kfreed |-> <<>>,
                   vfreed |-> <<>>, at |-> "arg", resized |-> NeedsResize(map)]
             ELSE LET m == rz.map
                      index == _map_get_bucket_index(m, key)
                      pos == Scan(m.buckets[index], key, 1)
                      r == IF pos # 0
                           THEN InsertOverwrite(m, index, pos, key, value)
                           ELSE InsertLink(m, index, key, value, malloc_ok)
                  IN  [res |-> r.res, map |-> r.map, kfreed |-> r.kfreed,
                       vfreed |-> r.vfreed, at |-> r.at,
                       resized |-> NeedsResize(map)]

\* map_result_t map_insert(map, key, value).  The result carries the return
\* code, the map afterwards, the pointers the destructors were called on,
\* the return statement reached (at) and whether _map_resize was called and
\* succeeded (resized).
map_insert(map, key, value, calloc_ok, malloc_ok) ==
    IF map.isnull \/ key = NULL
    THEN [res |-> MAP_FAILURE, map |-> map, kfreed |-> <<>>, vfreed |-> <<>>,
          at |-> "arg", resized |-> FALSE]
    ELSE LET rz == InsertResize(map, calloc_ok)
         IN  IF rz.res # MAP_SUCCESS
             THEN [res |-> rz.res, map |-> rz.map, kfreed |-> <<>>,
                   vfreed |-> <<>>, at |-> "resize", resized |-> FALSE]
             ELSE LET m == rz.map
                      index == _map_get_bucket_index(m, key)
                      pos == Scan(m.buckets[index], key, 1)
                      r == IF pos # 0
                           THEN InsertOverwrite(m, index, pos, key, value)
                           ELSE InsertLink(m, index, key, value, malloc_ok)
                  IN  [res |-> r.res, map |-> r.map, kfreed |-> r.kfreed,
                       vfreed |-> r.vfreed, at |-> r.at,
                       resized |-> NeedsResize(map)]

\* void *map_get(map, key)
map_get(map, key) ==
    IF map.isnull \/ key = NULL THEN NULL
    ELSE LET index == _map_get_bucket_index(map, key)
             pos == Scan(map.buckets[index], key, 1)
         IN  IF pos # 0 THEN map.buckets[index][pos].value ELSE NULL

\* int map_contains(map, key)
map_contains(map, key) == IF map_get(map, key) # NULL THEN 1 ELSE 0

\* Unlink with the successor link lost: the rest of the chain goes too.
UnlinkDropsTail(chain, pos) == SubSeq(chain, 1, pos - 1)

\* Unlink that always takes the head branch, buckets[index] = current->next:
\* the nodes before the unlinked one go too.
UnlinkAsHead(chain, pos) == SubSeq(chain, pos + 1, Len(chain))

\* The unlinking of the node at position pos of a chain (lines 307-311).
Unlink(chain, pos) == SubSeq(chain, 1, pos - 1) \o SubSeq(chain, pos + 1, Len(chain))

\* map_result_t map_delete(map, key)
map_delete(map, key) ==
    IF map.isnull \/ key = NULL
    THEN [res |-> MAP_FAILURE, map |-> map, kfreed |-> <<>>, vfreed |-> <<>>]
    ELSE LET index == _map_get_bucket_index(map, key)
             pos == Scan(map.buckets[index], key, 1)
         IN  IF pos # 0
             THEN LET d == _map_node_destroy(map.buckets[index][pos],
                                             map.key_free_func,
                                             map.value_free_func)
                  IN  [res |-> MAP_SUCCESS,
                       map |-> [map EXCEPT !.buckets[index] = Unlink(@, pos),
                                           !.size = @ - 1],
                       kfreed |-> d.kfreed, vfreed |-> d.vfreed]
             ELSE [res |-> MAP_KEY_NOT_FOUND, map |-> map,
                   kfreed |-> <<>>, vfreed |-> <<>>]

\* size_t map_size(map)
map_size(map) == IF ~map.isnull THEN map.size ELSE 0

\* The destructor calls of map_destroy on the nodes from position i on.
RECURSIVE DestroyFrom(_, _, _)
DestroyFrom(map, nodes, i) ==
    IF i > Len(nodes) THEN [kfreed |-> <<>>, vfreed |-> <<>>]
    ELSE LET d == _map_node_destroy(nodes[i], map.key_free_func,
                                    map.value_free_func)
             rest == DestroyFrom(map, nodes, i + 1)
         IN  [kfreed |-> d.kfreed \o rest.kfreed,
              vfreed |-> d.vfreed \o rest.vfreed]

\* void map_destroy(map): the pointers the destructors are called on.
map_destroy(map) ==
    IF map.isnull THEN [kfreed |-> <<>>, vfreed |-> <<>>]
    ELSE DestroyFrom(map, AllNodes(map), 1)

\* map_iterate that calls the callback on the head of each chain only.
map_iterateHeadsOnly(map, callback_null, stop_at) ==
    IF map.isnull \/ callback_null
    THEN [res |-> MAP_FAILURE, visited |-> <<>>]
    ELSE LET heads == ChainsFrom([i \in DOMAIN map.buckets |->
                                     IF map.buckets[i] = <<>> THEN <<>>
                                     ELSE <<map.buckets[i][1]>>],
                                 0, map.capacity)
         IN  IF stop_at >= 1 /\ stop_at <= Len(heads)
             THEN [res |-> MAP_FAILURE, visited |-> SubSeq(heads, 1, stop_at)]
             ELSE [res |-> MAP_SUCCESS, visited |-> heads]

\* map_iterate that notices the callback's stop one call late.
map_iterateStopsLate(map, callback_null, stop_at) ==
    IF map.isnull \/ callback_null
    THEN [res |-> MAP_FAILURE, visited |-> <<>>]
    ELSE LET nodes == AllNodes(map)
         IN  IF stop_at >= 1 /\ stop_at < Len(nodes)
             THEN [res |-> MAP_FAILURE, visited |-> SubSeq(nodes, 1, stop_at + 1)]
             ELSE [res |-> MAP_SUCCESS, visited |-> nodes]

\* map_result_t map_iterate(map, callback_func, user_data) with a callback
\* that returns non-zero on its stop_at-th call (never, if stop_at is 0):
\* the return code and the nodes the callback was called on, in order.
map_iterate(map, callback_null, stop_at) ==
    IF map.isnull \/ callback_null
    THEN [res |-> MAP_FAILURE, visited |-> <<>>]
    ELSE LET nodes == AllNodes(map)
         IN  IF stop_at >= 1 /\ stop_at <= Len(nodes)
             THEN [res |-> MAP_FAILURE, visited |-> SubSeq(nodes, 1, stop_at)]
             ELSE [res |-> MAP_SUCCESS, visited |-> nodes]

\* map_get that moves the node it finds to the head of its chain.
GetEffectMoveToFront(map, key) ==
    IF map.isnull \/ key = NULL
    THEN [map |-> map, kfreed |-> <<>>, vfreed |-> <<>>]
    ELSE LET index == _map_get_bucket_index(map, key)
             pos == Scan(map.buckets[index], key, 1)
         IN  [map |-> IF pos = 0 THEN map
                      ELSE [map EXCEPT !.buckets[index] =
                               <<@[pos]>> \o Unlink(@, pos)],
              kfreed |-> <<>>, vfreed |-> <<>>]

\* What the calls that take a `const map_t *` leave behind: the map after
\* the call and the pointers the destructors were called on.  map_get,
\* map_contains (a call of map_get), map_size and map_iterate (with a
\* callback that only reads its arguments) contain no assignment through
\* map and no destructor call.
GetEffect(map, key) == [map |-> map, kfreed |-> <<>>, vfreed |-> <<>>]

ContainsEffect(map, key) == GetEffect(map, key)

SizeEffect(map) == [map |-> map, kfreed |-> <<>>, vfreed |-> <<>>]

IterateEffect(map, callback_null, stop_at) ==
    [map |-> map, kfreed |-> <<>>, vfreed |-> <<>>]

\* ------------------------------------------------------------- the state
VARIABLES
    map,        \* the map_t the caller's handle points to (NullMap: none)
    handle,     \* "none": no map yet, "live", "destroyed", or, after a
                \* destructor was called on a pointer a second time,
                \* "aborted" or "undefined" (see UndefinedBehaviour)
    kfree,      \* kfree[p]: calls of the key destructor on key pointer p
    vfree,      \* vfree[v]: calls of the value destructor on value pointer v
    ownedK,     \* key pointers a successful map_insert took into a map that
                \* has a key destructor
    ownedV,     \* value pointers a successful map_insert took into a map
                \* that has a value destructor
    stored,     \* stored[c]: <<v>> for the value v of the latest successful
                \* insert of content c, <<>> once a delete of c has succeeded
                \* since (or if there was no such insert)
    created     \* the contents of the live entries in the order in which
                \* _map_node_create made their nodes, the oldest first

vars == <<map, handle, kfree, vfree, ownedK, ownedV, stored, created>>

\* f with one more call counted for every pointer of the sequence s.
Called(f, s) ==
    [p \in DOMAIN f |-> f[p] + Cardinality({i \in 1..Len(s) : s[i] = p})]

\* The nodes, keys and values now in a map.
Nodes(m) ==
    UNION {{m.buckets[b][i] : i \in 1..Len(m.buckets[b])} : b \in DOMAIN m.buckets}
StoredKeys(m) == {n.key : n \in Nodes(m)}
StoredValues(m) == {n.value : n \in Nodes(m)}

\* What the caller passes to map_insert.  A key is NULL, the very pointer
\* the map stores, or the caller's next allocation with some content: the
\* first pointer that is neither in the map nor destroyed.  A value is NULL,
\* the very pointer stored under an equal key (if no destructor has run on
\* it), or the caller's next allocation.
First(S) == {p \in S : \A q \in S : p <= q}

NextKey(c) ==
    LET inmap == StoredKeys(map)
    IN  First({p \in InsertKeys :
                  Deref(p) = c /\ kfree[p] = 0 /\ p \notin inmap})

NextValue ==
    LET inmap == StoredValues(map)
    IN  First({v \in ValuePtrs : vfree[v] = 0 /\ v \notin inmap})

InsertKeyChoices ==
    {NULL} \cup StoredKeys(map) \cup UNION {NextKey(c) : c \in Contents}

InsertValueChoices(key) ==
    {NULL} \cup NextValue
    \cup {v \in ValuePtrs :
             /\ key # NULL
             /\ vfree[v] = 0
             /\ \E n \in Nodes(map) : compare_int(n.key, key) = 0 /\ n.value = v}

Init ==
    /\ map = NullMap
    /\ handle = "none"
    /\ kfree = [p \in InsertKeys |-> 0]
    /\ vfree = [v \in ValuePtrs |-> 0]
    /\ ownedK = {}
    /\ ownedV = {}
    /\ stored = [c \in Contents \cup FillContents |-> <<>>]
    /\ created = <<>>

\* ------------------------------------------------------------ the calls
\* Before map_create has succeeded the caller's handle is NULL, and the
\* calls below are calls with a NULL map (map = NullMap then).  What a
\* call that takes a const map (map_get, map_contains, map_size,
\* map_iterate) returns is the operator of the same name applied to the
\* state; what it does to the state is its ...Effect.
Create(initial_capacity, hash_null, compare_null, key_free_func, value_free_func, malloc_ok, calloc_ok) ==
    /\ handle = "none"
    /\ LET m == map_create(initial_capacity, hash_null, compare_null,
                           key_free_func, value_free_func, malloc_ok, calloc_ok)
       IN  /\ map' = m
           /\ handle' = IF m.isnull THEN "none" ELSE "live"
    /\ UNCHANGED <<kfree, vfree, ownedK, ownedV, stored, created>>

\* malloc and calloc can fail only where map_insert calls them: calloc for
\* the bucket array of a resize, malloc for the node of a new key.
CallocOutcomes(key) ==
    IF ~map.isnull /\ key # NULL /\ NeedsResize(map) THEN BOOLEAN ELSE {TRUE}

MallocOutcomes(key, calloc_ok) ==
    IF map_insert(map, key, NULL, calloc_ok, TRUE).at = "link"
    THEN BOOLEAN ELSE {TRUE}

\* The calls of map_insert the caller makes in the current state.
InsertArgs ==
    UNION {UNION {UNION {
        {[key |-> key, value |-> value, calloc_ok |-> calloc_ok,
          malloc_ok |-> malloc_ok] : malloc_ok \in MallocOutcomes(key, calloc_ok)}
        : calloc_ok \in CallocOutcomes(key)}
        : value \in InsertValueChoices(key)}
        : key \in InsertKeyChoices}

\* A call of a destructor on a pointer it has been called on before (or
\* twice in one sequence of calls).
DoubleFree(counts, s) ==
    \E i \in 1..Len(s) :
        \/ counts[s[i]] >= 1
        \/ \E j \in 1..Len(s) : j # i /\ s[j] = s[i]

\* With free as the destructor (generic_free, as main.c passes it) a second
\* call on a pointer is a double free: undefined behaviour.  The allocator
\* may detect it and abort the process ("aborted"), or release a block that
\* is not free, or has been handed out again, without a sign ("undefined":
\* from then on the heap, and with it the map, can be anything, and no
\* further call is modelled).  A destructor that only counts its calls
\* returns, and the call goes on: that is the outcome the calls below give
\* beside this one.  In the states reached here the variables other than
\* handle carry no meaning and are as in Init.
UndefinedOutcomes == {"aborted", "undefined"}

UndefinedBehaviour(kfreed, vfreed) ==
    /\ DoubleFree(kfree, kfreed) \/ DoubleFree(vfree, vfreed)
    /\ handle' \in UndefinedOutcomes
    /\ map' = NullMap
    /\ kfree' = [p \in InsertKeys |-> 0]
    /\ vfree' = [v \in ValuePtrs |-> 0]
    /\ ownedK' = {}
    /\ ownedV' = {}
    /\ stored' = [c \in Contents \cup FillContents |-> <<>>]
    /\ created' = <<>>

Insert(key, value, calloc_ok, malloc_ok) ==
    /\ handle \in {"none", "live"}
    /\ \E r \in {map_insert(map, key, value, calloc_ok, malloc_ok)} :
       LET ok == r.res = MAP_SUCCESS
       IN  \/ /\ map' = r.map
              /\ kfree' = Called(kfree, r.kfreed)
              /\ vfree' = Called(vfree, r.vfreed)
              /\ ownedK' = IF ok /\ map.key_free_func THEN ownedK \cup {key}
                           ELSE ownedK
              /\ ownedV' = IF ok /\ map.value_free_func /\ value # NULL
                           THEN ownedV \cup {value} ELSE ownedV
              /\ stored' = IF ok THEN [stored EXCEPT ![Deref(key)] = <<value>>]
                           ELSE stored
              /\ created' = IF r.at = "link" THEN Append(created, Deref(key))
                            ELSE created
              /\ UNCHANGED handle
           \/ UndefinedBehaviour(r.kfreed, r.vfreed)

Get(key) ==
    /\ handle \in {"none", "live"}
    /\ map_get(map, key) \in ValuePtrs \cup {NULL}
    /\ LET e == GetEffect(map, key)
       IN  /\ map' = e.map
           /\ kfree' = Called(kfree, e.kfreed)
           /\ vfree' = Called(vfree, e.vfreed)
    /\ UNCHANGED <<handle, ownedK, ownedV, stored, created>>

Contains(key) ==
    /\ handle \in {"none", "live"}
    /\ map_contains(map, key) \in {0, 1}
    /\ LET e == ContainsEffect(map, key)
       IN  /\ map' = e.map
           /\ kfree' = Called(kfree, e.kfreed)
           /\ vfree' = Called(vfree, e.vfreed)
    /\ UNCHANGED <<handle, ownedK, ownedV, stored, created>>

Delete(key) ==
    /\ handle \in {"none", "live"}
    /\ \E r \in {map_delete(map, key)} :
           \/ /\ map' = r.map
              /\ kfree' = Called(kfree, r.kfreed)
              /\ vfree' = Called(vfree, r.vfreed)
              /\ stored' = IF r.res = MAP_SUCCESS
                           THEN [stored EXCEPT ![Deref(key)] = <<>>]
                           ELSE stored
              /\ created' = IF r.res = MAP_SUCCESS
                            THEN SelectSeq(created, LAMBDA c : c # Deref(key))
                            ELSE created
              /\ UNCHANGED <<handle, ownedK, ownedV>>
           \/ UndefinedBehaviour(r.kfreed, r.vfreed)

Size ==
    /\ handle \in {"none", "live"}
    /\ map_size(map) >= 0
    /\ LET e == SizeEffect(map)
       IN  /\ map' = e.map
           /\ kfree' = Called(kfree, e.kfreed)
           /\ vfree' = Called(vfree, e.vfreed)
    /\ UNCHANGED <<handle, ownedK, ownedV, stored, created>>

\* The callback stops at its stop_at-th call (never, if stop_at is 0).
Iterate(callback_null, stop_at) ==
    /\ handle \in {"none", "live"}
    /\ callback_null => stop_at = 0
    /\ stop_at <= map.size
    /\ map_iterate(map, callback_null, stop_at).res \in {MAP_SUCCESS, MAP_FAILURE}
    /\ LET e == IterateEffect(map, callback_null, stop_at)
       IN  /\ map' = e.map
           /\ kfree' = Called(kfree, e.kfreed)
           /\ vfree' = Called(vfree, e.vfreed)
    /\ UNCHANGED <<handle, ownedK, ownedV, stored, created>>

\* map_destroy(NULL) is a no-op; after map_destroy of a live map the handle
\* dangles and nothing more is called.
Destroy ==
    /\ handle \in {"none", "live"}
    /\ \E r \in {map_destroy(map)} :
           \/ /\ kfree' = Called(kfree, r.kfreed)
              /\ vfree' = Called(vfree, r.vfreed)
              /\ map' = NullMap
              /\ handle' = IF handle = "live" THEN "destroyed" ELSE handle
              /\ created' = <<>>
              /\ UNCHANGED <<ownedK, ownedV, stored>>
           \/ UndefinedBehaviour(r.kfreed, r.vfreed)

\* A call of map_insert with arguments the caller may pass.
InsertCall ==
    \E key \in InsertKeyChoices :
       \E value \in InsertValueChoices(key) :
          \E cok \in CallocOutcomes(key) :
             \E mok \in MallocOutcomes(key, cok) :
                Insert(key, value, cok, mok)

Next ==
    \/ \E ic \in InitCaps, hn, cn, kf, vf, mok, cok \in BOOLEAN :
           Create(ic, hn, cn, kf, vf, mok, cok)
    \/ InsertCall
    \/ \E key \in LookupKeys \cup {NULL} : Get(key)
    \/ \E key \in LookupKeys \cup {NULL} : Contains(key)
    \/ \E key \in LookupKeys \cup {NULL} : Delete(key)
    \/ Size
    \/ \E cbn \in BOOLEAN, stop_at \in 0..NumContents : Iterate(cbn, stop_at)
    \/ Destroy

Spec == Init /\ [][Next]_vars

\* ------------------------------------------- filling the default capacity
\* A second caller, like the int_map part of main.c: a map created with
\* initial_capacity 0 and no destructors.  The caller inserts distinct int
\* keys, each with a value of its own: a key that is in the map (an
\* overwrite) or, in the order of the key pointers, one beyond every key in
\* the map (i_key1, i_key2, ... in main.c).  It deletes any of them, and
\* destroys the map in the end.  The calls are the calls of the first
\* caller, with these arguments.
FillValue(key) == ((key - 1) % NumValues) + 1

InitFill ==
    /\ map = map_create(0, FALSE, FALSE, FALSE, FALSE, TRUE, TRUE)
    /\ handle = "live"
    /\ kfree = [p \in InsertKeys |-> 0]
    /\ vfree = [v \in ValuePtrs |-> 0]
    /\ ownedK = {}
    /\ ownedV = {}
    /\ stored = [c \in Contents \cup FillContents |-> <<>>]
    /\ created = <<>>

FillInsert(key, calloc_ok, malloc_ok) ==
    /\ handle = "live"
    /\ \/ key \in StoredKeys(map)
       \/ \A k \in StoredKeys(map) : k < key
    /\ Insert(key, FillValue(key), calloc_ok, malloc_ok)

FillDelete(key) ==
    /\ handle = "live"
    /\ Delete(key)

NextFill ==
    \/ \E key \in FillKeys :
          \E cok \in CallocOutcomes(key) :
             \E mok \in MallocOutcomes(key, cok) : FillInsert(key, cok, mok)
    \/ \E key \in FillKeys : FillDelete(key)
    \/ Destroy

SpecFill == InitFill /\ [][NextFill]_vars

\* ------------------------------------------------------------ the claims
\* The node of m whose key compares equal to key, if there is one.
HasEqualKey(m, key) == \E n \in Nodes(m) : compare_int(n.key, key) = 0
EqualNode(m, key) == CHOOSE n \in Nodes(m) : compare_int(n.key, key) = 0

\* (Below, \A r \in {e} : P names the value of e in P.)
DoInsert(a) == map_insert(map, a.key, a.value, a.calloc_ok, a.malloc_ok)

\* C1 (round trip): on a live map, for every key content whose latest
\* successful insert has not been followed by a successful delete,
\* map_get returns exactly the value of that insert.
C1_RoundTrip ==
    handle = "live" =>
        \A k \in LookupKeys :
            stored[Deref(k)] # <<>> => map_get(map, k) = stored[Deref(k)][1]

\* Several live entries, one of them inserted again after an earlier entry of
\* the same content was destroyed.
C1_Witness ==
    /\ handle = "live"
    /\ map.size >= 2
    /\ \E k \in LookupKeys, p \in InsertKeys :
          /\ stored[Deref(k)] # <<>>
          /\ stored[Deref(k)][1] \in ValuePtrs
          /\ map_get(map, k) = stored[Deref(k)][1]
          /\ Deref(p) = Deref(k) /\ kfree[p] > 0

\* C2 as claimed (overwrite): map_insert of a key equal to a stored one
\* returns success, makes map_get return the new value, leaves size
\* unchanged and calls the configured value destructor exactly once, on the
\* old value.
C2_Original ==
    handle = "live" =>
        \A a \in InsertArgs :
            (a.key # NULL /\ HasEqualKey(map, a.key)) =>
                LET r == DoInsert(a)
                    old == EqualNode(map, a.key).value
                IN  /\ r.res = MAP_SUCCESS
                    /\ map_get(r.map, a.key) = a.value
                    /\ r.map.size = map.size
                    /\ map.value_free_func => r.vfreed = <<old>>

\* C2 as amended: such a map_insert returns AllocationError, with the map
\* unchanged and no destructor called, when the load-factor check at its
\* entry asks for a resize whose bucket array cannot be allocated; otherwise
\* it returns success, map_get returns the new value, size is unchanged and
\* the configured value destructor is called exactly once on the old value
\* if that is non-null, and not at all if it is null.
C2_Overwrite ==
    handle = "live" =>
        \A a \in InsertArgs :
            (a.key # NULL /\ HasEqualKey(map, a.key)) =>
                \A r \in {DoInsert(a)} :
                LET old == EqualNode(map, a.key).value
                IN  IF NeedsResize(map) /\ ~a.calloc_ok
                    THEN /\ r.res = MAP_ALLOCATION_ERROR
                         /\ r.map = map
                         /\ r.kfreed = <<>> /\ r.vfreed = <<>>
                    ELSE /\ r.res = MAP_SUCCESS
                         /\ map_get(r.map, a.key) = a.value
                         /\ r.map.size = map.size
                         /\ r.vfreed = IF map.value_free_func /\ old # NULL
                                       THEN <<old>> ELSE <<>>

\* A map with a value destructor in which a stored key is about to be given
\* another non-null value, next to a second entry.
C2_Witness ==
    /\ handle = "live"
    /\ map.value_free_func
    /\ map.size >= 2
    /\ \E a \in InsertArgs :
          /\ a.key # NULL /\ HasEqualKey(map, a.key)
          /\ a.value \in ValuePtrs
          /\ EqualNode(map, a.key).value \in ValuePtrs \ {a.value}
          /\ DoInsert(a).at = "overwrite"
          /\ DoInsert(a).vfreed = <<EqualNode(map, a.key).value>>

\* C3 (delete removes reachability): when map_delete returns success,
\* map_get of the key then reports absence, map_contains is false, size is
\* one less, and every other key is retrievable with the value it had.
C3_DeleteRemoves ==
    handle = "live" =>
        \A k \in LookupKeys :
            LET r == map_delete(map, k)
            IN  r.res = MAP_SUCCESS =>
                    /\ map_get(r.map, k) = NULL
                    /\ map_contains(r.map, k) = 0
                    /\ ~HasEqualKey(r.map, k)
                    /\ r.map.size = map.size - 1
                    /\ \A j \in LookupKeys :
                          Deref(j) # Deref(k) =>
                              /\ map_get(r.map, j) = map_get(map, j)
                              /\ HasEqualKey(r.map, j) = HasEqualKey(map, j)

\* A delete that succeeds on the head of a chain that holds another entry.
C3_Witness ==
    /\ handle = "live"
    /\ \E k \in LookupKeys, b \in DOMAIN map.buckets :
          /\ map_delete(map, k).res = MAP_SUCCESS
          /\ Len(map.buckets[b]) >= 2
          /\ compare_int(map.buckets[b][1].key, k) = 0
          /\ map.buckets[b][2].value \in ValuePtrs

\* C4 (delete of an absent key): map_delete of a non-null key that no entry
\* matches returns MAP_KEY_NOT_FOUND, calls no destructor, and leaves size,
\* capacity and every chain as they were.
C4_DeleteNotFound ==
    handle = "live" =>
        \A k \in LookupKeys :
            ~HasEqualKey(map, k) =>
                LET r == map_delete(map, k)
                IN  /\ r.res = MAP_KEY_NOT_FOUND
                    /\ r.kfreed = <<>> /\ r.vfreed = <<>>
                    /\ r.map = map

\* A delete of an absent key whose bucket is not empty.
C4_Witness ==
    /\ handle = "live"
    /\ \E k \in LookupKeys :
          /\ ~HasEqualKey(map, k)
          /\ map.buckets[_map_get_bucket_index(map, k)] # <<>>
          /\ map_delete(map, k).res = MAP_KEY_NOT_FOUND

\* C5 (load factor bound): after every operation on a live map
\* size / capacity <= 0.75, and a step of a live map leaves its capacity as
\* it is or doubles it exactly (so capacity never decreases).
C5_LoadFactor ==
    /\ [](handle = "live" => 4 * map.size <= 3 * map.capacity)
    /\ [][(handle = "live" /\ handle' = "live") =>
              \/ map'.capacity = map.capacity
              \/ map'.capacity = RESIZE_FACTOR * map.capacity]_vars

\* A map that has grown from the largest initial capacity and holds every
\* content.
C5_Witness ==
    /\ handle = "live"
    /\ map.capacity = RESIZE_FACTOR * MaxInitCap
    /\ map.size = NumContents

\* The nodes of m other than the one whose key compares equal to key.
OtherNodes(m, key) == {n \in Nodes(m) : compare_int(n.key, key) # 0}

\* C6 (resize preserves reachability): when map_insert has resized the map,
\* every other key is retrievable with the value it had, the other entries
\* are the same entries as before, none lost and none duplicated, and the
\* inserted key has its new value if the insert succeeded and is as it was
\* if it failed.
C6_ResizePreserves ==
    handle = "live" =>
        \A a \in InsertArgs :
            \A r \in {DoInsert(a)} :
                r.resized =>
                    /\ r.map.capacity = RESIZE_FACTOR * map.capacity
                    /\ \A j \in LookupKeys :
                          Deref(j) # Deref(a.key) =>
                              map_get(r.map, j) = map_get(map, j)
                    /\ OtherNodes(r.map, a.key) = OtherNodes(map, a.key)
                    /\ Len(AllNodes(r.map)) =
                          IF r.at = "link" THEN Len(AllNodes(map)) + 1
                          ELSE Len(AllNodes(map))
                    /\ Cardinality(Nodes(r.map)) = Len(AllNodes(r.map))
                    /\ map_get(r.map, a.key) =
                          IF r.res = MAP_SUCCESS THEN a.value
                          ELSE map_get(map, a.key)

\* An insert about to resize a map whose entries share a chain and hold
\* non-null values.
C6_Witness ==
    /\ handle = "live"
    /\ \E a \in InsertArgs, b \in DOMAIN map.buckets :
          /\ DoInsert(a).resized
          /\ Len(map.buckets[b]) >= 2
          /\ \A i \in 1..Len(map.buckets[b]) :
                map.buckets[b][i].value \in ValuePtrs

\* C7 (resize is all-or-nothing): when the new bucket array cannot be
\* allocated, map_insert returns MAP_ALLOCATION_ERROR, calls no destructor,
\* and the map (capacity, size, buckets, chains and their order) is as it
\* was.
C7_ResizeAllOrNothing ==
    handle = "live" =>
        \A a \in InsertArgs :
            (a.key # NULL /\ NeedsResize(map) /\ ~a.calloc_ok) =>
                LET r == DoInsert(a)
                IN  /\ r.res = MAP_ALLOCATION_ERROR
                    /\ r.map = map
                    /\ r.kfreed = <<>> /\ r.vfreed = <<>>

\* An insert whose resize fails on a map that holds entries.
C7_Witness ==
    /\ handle = "live"
    /\ map.size >= 2
    /\ \E a \in InsertArgs :
          /\ a.key # NULL /\ NeedsResize(map) /\ ~a.calloc_ok
          /\ DoInsert(a).at = "resize"

\* C8 as claimed (node allocation failure): whenever map_insert of a new key
\* cannot allocate the node, it returns MAP_ALLOCATION_ERROR and the map is
\* identical to what it was, also when the insert crossed the load-factor
\* threshold.
C8_NodeFailureUnchanged ==
    handle = "live" =>
        \A a \in InsertArgs :
            (a.key # NULL /\ ~HasEqualKey(map, a.key) /\ a.calloc_ok /\ ~a.malloc_ok) =>
                LET r == DoInsert(a)
                IN  /\ r.res = MAP_ALLOCATION_ERROR
                    /\ r.map = map

\* The number of calls a sequence of destructor calls makes on pointer p.
Calls(s, p) == Cardinality({i \in 1..Len(s) : s[i] = p})
Range(s) == {s[i] : i \in 1..Len(s)}

\* C9 as claimed (destructor discipline): a destructor runs on a payload
\* exactly once, and only when that payload stops being reachable from the
\* map, also when an insert passes the very key or value pointer that is
\* stored; no payload still in the map has had its destructor run; no call
\* that returns a failure or NotFound calls a destructor.  (map_get,
\* map_contains, map_size and map_iterate change no state at all.)
C9_DestructorDiscipline ==
    /\ \A p \in InsertKeys : kfree[p] <= 1
    /\ \A v \in ValuePtrs : vfree[v] <= 1
    /\ \A n \in Nodes(map) :
          /\ kfree[n.key] = 0
          /\ n.value # NULL => vfree[n.value] = 0
    /\ \A p \in ownedK : p \notin StoredKeys(map) => kfree[p] = 1
    /\ \A v \in ownedV : v \notin StoredValues(map) => vfree[v] = 1
    /\ handle = "live" =>
          /\ \A a \in InsertArgs :
                LET r == DoInsert(a)
                IN  /\ r.res # MAP_SUCCESS => r.kfreed = <<>> /\ r.vfreed = <<>>
                    /\ \A p \in Range(r.kfreed) :
                          p \in StoredKeys(map) /\ p \notin StoredKeys(r.map)
                    /\ \A v \in Range(r.vfreed) :
                          v \in StoredValues(map) /\ v \notin StoredValues(r.map)
          /\ \A k \in LookupKeys \cup {NULL} :
                LET r == map_delete(map, k)
                IN  /\ r.res # MAP_SUCCESS => r.kfreed = <<>> /\ r.vfreed = <<>>
                    /\ \A p \in Range(r.kfreed) :
                          p \in StoredKeys(map) /\ p \notin StoredKeys(r.map)
                    /\ \A v \in Range(r.vfreed) :
                          v \in StoredValues(map) /\ v \notin StoredValues(r.map)

\* C10 as claimed (teardown discipline): map_destroy of a live map calls the
\* configured key destructor once on the key of every live entry and the
\* configured value destructor once on its (non-null) value, so that once
\* the map is destroyed every key and value a successful insert handed to it
\* has been destroyed exactly once, and no call ends in a double free.
C10_Teardown ==
    /\ handle = "live" =>
          LET r == map_destroy(map)
          IN  /\ map.key_free_func =>
                    \A n \in Nodes(map) : Calls(r.kfreed, n.key) = 1
              /\ map.value_free_func =>
                    \A n \in Nodes(map) :
                        n.value # NULL => Calls(r.vfreed, n.value) = 1
              /\ Range(r.kfreed) \subseteq StoredKeys(map)
              /\ Range(r.vfreed) \subseteq StoredValues(map)
    /\ handle = "destroyed" =>
          /\ \A p \in ownedK : kfree[p] = 1
          /\ \A v \in ownedV : vfree[v] = 1
    /\ handle \notin UndefinedOutcomes

\* C11 (iteration completeness): map_iterate with a callback that always
\* returns 0 calls it exactly once on every live entry and on nothing else,
\* the number of calls is map_size, and the call returns MAP_SUCCESS.  (The
\* map is passed as const: the call has no map to give back, and the state
\* is as it was.)
C11_IterateComplete ==
    handle = "live" =>
        LET r == map_iterate(map, FALSE, 0)
        IN  /\ r.res = MAP_SUCCESS
            /\ Range(r.visited) = Nodes(map)
            /\ \A n \in Nodes(map) : Calls(r.visited, n) = 1
            /\ \A c \in Contents :
                  Cardinality({i \in 1..Len(r.visited) :
                                  Deref(r.visited[i].key) = c})
                     = IF stored[c] # <<>> THEN 1 ELSE 0
            /\ Len(r.visited) = map_size(map)

\* A complete iteration over a map with two entries in one chain.
C11_Witness ==
    /\ handle = "live"
    /\ \E b \in DOMAIN map.buckets : Len(map.buckets[b]) >= 2
    /\ map_iterate(map, FALSE, 0).res = MAP_SUCCESS
    /\ Len(map_iterate(map, FALSE, 0).visited) = NumContents

\* C12 (early stop): when the callback returns non-zero on its k-th call,
\* map_iterate has made exactly k calls, on the first k entries of the
\* iteration order and on no further one, and returns MAP_FAILURE, which is
\* not the MAP_SUCCESS of a complete iteration.
C12_IterateStops ==
    handle = "live" =>
        \A k \in 1..map_size(map) :
            LET r == map_iterate(map, FALSE, k)
                all == map_iterate(map, FALSE, 0)
            IN  /\ Len(r.visited) = k
                /\ r.visited = SubSeq(all.visited, 1, k)
                /\ r.res = MAP_FAILURE
                /\ r.res # all.res

\* A callback that stops on its first call while more entries follow, and
\* one that stops on the call for the last entry.
C12_Witness ==
    /\ handle = "live"
    /\ map_size(map) >= 2
    /\ Len(map_iterate(map, FALSE, 1).visited) = 1
    /\ map_iterate(map, FALSE, map_size(map)).res = MAP_FAILURE

\* The position of content c in the creation order of the live entries.
Age(c) == CHOOSE i \in 1..Len(created) : created[i] = c

\* The key contents of the chain of bucket b, from the head.
ChainContents(m, b) ==
    [i \in 1..Len(m.buckets[b]) |-> Deref(m.buckets[b][i].key)]

\* Entries c1 and c2 share a chain of m; c1 comes before c2 in a chain of m.
SameChain(m, c1, c2) ==
    \E b \in DOMAIN m.buckets :
        \E i, j \in 1..Len(m.buckets[b]) :
            ChainContents(m, b)[i] = c1 /\ ChainContents(m, b)[j] = c2
Before(m, c1, c2) ==
    \E b \in DOMAIN m.buckets :
        \E i, j \in 1..Len(m.buckets[b]) :
            i < j /\ ChainContents(m, b)[i] = c1 /\ ChainContents(m, b)[j] = c2

\* map_iterate calls the callback bucket by bucket in increasing index
\* order, and within a bucket along the chain from its head.
IterateInChainOrder(m) ==
    LET v == map_iterate(m, FALSE, 0).visited
    IN  /\ \A b \in DOMAIN m.buckets :
              SelectSeq(v, LAMBDA n : _map_get_bucket_index(m, n.key) = b)
                 = m.buckets[b]
        /\ \A i, j \in 1..Len(v) :
              i < j => _map_get_bucket_index(m, v[i].key)
                          <= _map_get_bucket_index(m, v[j].key)

\* C13 as claimed (iteration and chain order): in every reachable state each
\* chain lists its entries most recently created first, and map_iterate
\* goes through the buckets in increasing index order and through each
\* chain from its head.
C13_Original ==
    handle = "live" =>
        /\ \A b \in DOMAIN map.buckets :
              \A i, j \in 1..Len(map.buckets[b]) :
                  i < j => Age(ChainContents(map, b)[i])
                              > Age(ChainContents(map, b)[j])
        /\ IterateInChainOrder(map)

\* C13 as amended: map_insert links a new entry at the head of its chain
\* (without a resize, in front of the chain as it was); an overwrite without
\* a resize and a delete keep the order of the entries of every chain; a
\* resize reverses the order of any two entries that share a chain before it
\* and after it, so that a chain is most-recently-created-first only among
\* entries created since the last resize; map_iterate goes through the
\* buckets in increasing index order and through each chain from its head.
C13_ChainOrder ==
    handle = "live" =>
        /\ IterateInChainOrder(map)
        /\ \A a \in InsertArgs :
              \A r \in {DoInsert(a)} :
              LET index == _map_get_bucket_index(r.map, a.key)
              IN  /\ r.at = "link" =>
                        /\ r.map.buckets[index][1].key = a.key
                        /\ IterateInChainOrder(r.map)
                  /\ (r.at = "link" /\ ~r.resized) =>
                        /\ Tail(r.map.buckets[index]) = map.buckets[index]
                        /\ \A b \in DOMAIN map.buckets \ {index} :
                              r.map.buckets[b] = map.buckets[b]
                  /\ (r.at = "overwrite" /\ ~r.resized) =>
                        \A b \in DOMAIN map.buckets :
                            ChainContents(r.map, b) = ChainContents(map, b)
                  /\ r.resized =>
                        \A c1, c2 \in Contents :
                            (Before(map, c1, c2) /\ SameChain(r.map, c1, c2))
                               => Before(r.map, c2, c1)
        /\ \A k \in LookupKeys :
              LET r == map_delete(map, k)
              IN  r.res = MAP_SUCCESS =>
                      \A b \in DOMAIN map.buckets :
                          ChainContents(r.map, b) =
                             SelectSeq(ChainContents(map, b),
                                       LAMBDA c : c # Deref(k))

\* A chain in which, after a resize, an entry created earlier comes before
\* one created later.
C13_Witness ==
    /\ handle = "live"
    /\ map.capacity > MaxInitCap
    /\ \E b \in DOMAIN map.buckets :
          \E i, j \in 1..Len(map.buckets[b]) :
              /\ i < j
              /\ Age(ChainContents(map, b)[i]) < Age(ChainContents(map, b)[j])

\* C14 as claimed (map_contains): map_contains returns 1 exactly when an
\* entry whose key compares equal to the key is in the map, and 0 otherwise,
\* whatever value was inserted with that key.
C14_Contains ==
    handle = "live" =>
        \A k \in LookupKeys :
            map_contains(map, k) = IF HasEqualKey(map, k) THEN 1 ELSE 0

\* C15 (invalid arguments): map_insert and map_delete with a NULL map or a
\* NULL key return MAP_FAILURE, which is neither MAP_KEY_NOT_FOUND nor
\* MAP_ALLOCATION_ERROR, call no destructor and leave the map as it is,
\* whatever malloc and calloc would do; map_get with a NULL map or a NULL
\* key returns NULL, and map_size of a NULL map is 0.
C15_InvalidArguments ==
    handle \in {"none", "live"} =>
        /\ MAP_FAILURE \notin {MAP_SUCCESS, MAP_KEY_NOT_FOUND, MAP_ALLOCATION_ERROR}
        /\ \A key \in KeyPtrs \cup {NULL} :
              (map.isnull \/ key = NULL) =>
                  /\ \A value \in ValuePtrs \cup {NULL}, cok, mok \in BOOLEAN :
                        LET r == map_insert(map, key, value, cok, mok)
                        IN  /\ r.res = MAP_FAILURE
                            /\ r.map = map
                            /\ r.kfreed = <<>> /\ r.vfreed = <<>>
                  /\ LET r == map_delete(map, key)
                     IN  /\ r.res = MAP_FAILURE
                         /\ r.map = map
                         /\ r.kfreed = <<>> /\ r.vfreed = <<>>
                  /\ map_get(map, key) = NULL
        /\ map.isnull => map_size(map) = 0

\* A map_insert with a NULL key on a map that has destructors, holds an
\* entry and is at its load-factor threshold.
C15_Witness ==
    /\ handle = "live"
    /\ map.key_free_func /\ map.value_free_func
    /\ map.size >= 1
    /\ NeedsResize(map)
    /\ \E value \in ValuePtrs :
          map_insert(map, NULL, value, TRUE, TRUE).res = MAP_FAILURE
    /\ map_delete(map, NULL).res = MAP_FAILURE

\* C16 (creation): map_create with hash and compare functions and
\* successful allocations returns an empty map (size 0, every bucket empty)
\* with the destructors it was given, of capacity INITIAL_CAPACITY when
\* initial_capacity is 0 and of capacity initial_capacity otherwise; without
\* a hash or a compare function, or when an allocation fails, it returns
\* NULL; and the capacity of a live map is positive in every reachable state.
C16_Creation ==
    /\ handle = "none" =>
          \A ic \in InitCaps, hn, cn, kf, vf, mok, cok \in BOOLEAN :
              LET m == map_create(ic, hn, cn, kf, vf, mok, cok)
              IN  IF hn \/ cn \/ ~mok \/ ~cok
                  THEN m = NullMap
                  ELSE /\ ~m.isnull
                       /\ m.size = 0
                       /\ m.capacity = IF ic = 0 THEN INITIAL_CAPACITY ELSE ic
                       /\ DOMAIN m.buckets = 0..(m.capacity - 1)
                       /\ \A b \in DOMAIN m.buckets : m.buckets[b] = <<>>
                       /\ AllNodes(m) = <<>>
                       /\ m.key_free_func = kf /\ m.value_free_func = vf
    /\ handle = "live" =>
          /\ ~map.isnull
          /\ map.capacity > 0
          /\ DOMAIN map.buckets = 0..(map.capacity - 1)
    /\ handle # "live" => map = NullMap

\* The map as map_create(0, ...) returned it: empty, with the default
\* capacity.
C16_Witness ==
    /\ handle = "live"
    /\ map = map_create(0, FALSE, FALSE, TRUE, TRUE, TRUE, TRUE)
    /\ map.capacity = INITIAL_CAPACITY

\* C17 (size invariant): between the calls, the size field of a live map is
\* the number of nodes on its chains, which is the number of entries
\* created and not deleted; also right after a resize.
C17_SizeInvariant ==
    handle = "live" =>
        /\ map.size = Len(AllNodes(map))
        /\ map.size = Cardinality(Nodes(map))
        /\ map.size = Len(created)
        /\ map_size(map) = map.size

\* A map that has been resized with every content in it, after a delete.
C17_Witness ==
    /\ handle = "live"
    /\ map.capacity > MaxInitCap /\ map.capacity < INITIAL_CAPACITY
    /\ map.size = NumContents
    /\ \E p \in InsertKeys : kfree[p] > 0

\* C18 (key uniqueness): with hash_int and compare_int, in every reachable
\* state no two nodes of the map, in one chain or in two, have keys that
\* compare equal (or are the same pointer).
C18_KeyUniqueness ==
    handle = "live" =>
        LET nodes == AllNodes(map)
        IN  \A i, j \in 1..Len(nodes) :
                i # j => /\ compare_int(nodes[i].key, nodes[j].key) # 0
                         /\ nodes[i].key # nodes[j].key

\* A map that has been resized, with two entries in one chain, one of them
\* under a key pointer other than the one it was created with.
C18_Witness ==
    /\ handle = "live"
    /\ map.capacity > MaxInitCap
    /\ \E b \in DOMAIN map.buckets :
          /\ Len(map.buckets[b]) >= 2
          /\ \E i \in 1..Len(map.buckets[b]) :
                \E p \in InsertKeys :
                    /\ p < map.buckets[b][i].key
                    /\ compare_int(p, map.buckets[b][i].key) = 0

\* C19 (bucket placement): in every reachable state every node lies in the
\* chain at index hash(key) mod capacity for the current capacity, after
\* resizes and after overwrites that put another equal key into the node.
C19_BucketPlacement ==
    handle = "live" =>
        \A b \in DOMAIN map.buckets :
            \A i \in 1..Len(map.buckets[b]) :
                /\ _map_get_bucket_index(map, map.buckets[b][i].key) = b
                /\ hash_int(map.buckets[b][i].key) % map.capacity = b

\* A map that has been resized, with entries in two buckets, one of them
\* under a key pointer other than the one it was created with.
C19_Witness ==
    /\ handle = "live"
    /\ map.capacity > MaxInitCap /\ map.capacity < INITIAL_CAPACITY
    /\ \E b1, b2 \in DOMAIN map.buckets :
          /\ b1 # b2
          /\ map.buckets[b1] # <<>> /\ map.buckets[b2] # <<>>
          /\ \E p \in InsertKeys :
                /\ p < map.buckets[b2][1].key
                /\ compare_int(p, map.buckets[b2][1].key) = 0

\* The fill keys now in the map.
FillStored == {k \in FillKeys : HasEqualKey(map, k)}

\* C20 as claimed (resize trigger): a map_insert with valid arguments grows
\* the map exactly when (size + 1) / capacity > 0.75 at entry, whether the
\* key is already in the map or not, and the new capacity is then exactly
\* twice the old; a map of capacity 16 is still of capacity 16 after the
\* insert of its 12th distinct key and of capacity 32 after the insert of
\* its 13th, with all 13 keys retrievable.
C20_Original ==
  handle = "live" =>
    \A key \in FillKeys, cok, mok \in BOOLEAN :
        LET r == map_insert(map, key, FillValue(key), cok, mok)
            over == 4 * (map.size + 1) > 3 * map.capacity
            new == ~HasEqualKey(map, key)
        IN  /\ r.map.capacity # map.capacity <=> over
            /\ r.map.capacity # map.capacity =>
                  r.map.capacity = 2 * map.capacity
            /\ (map.capacity = INITIAL_CAPACITY /\ new) =>
                  /\ map.size = 11 => r.map.capacity = 16
                  /\ map.size = 12 =>
                        /\ r.map.capacity = 32
                        /\ \A k \in FillStored \cup {key} :
                              map_get(r.map, k) = FillValue(k)

\* C20 as amended: a map_insert with valid arguments grows the map exactly
\* when (size + 1) / capacity > 0.75 at entry and the new bucket array can
\* be allocated (if it cannot, the call returns MAP_ALLOCATION_ERROR and the
\* map is as it was), whether the key is already in the
\* map or not, since the check comes before the scan of the chain; the new
\* capacity is then exactly twice the old.  A map of capacity 16 is still of
\* capacity 16 after the insert of its 12th distinct key and of capacity 32
\* after the insert of its 13th, with all 13 keys retrievable.
C20_ResizeTrigger ==
  handle = "live" =>
    \A key \in FillKeys, cok, mok \in BOOLEAN :
        LET r == map_insert(map, key, FillValue(key), cok, mok)
            over == 4 * (map.size + 1) > 3 * map.capacity
            new == ~HasEqualKey(map, key)
        IN  /\ r.map.capacity # map.capacity <=> (over /\ cok)
            /\ r.map.capacity # map.capacity =>
                  r.map.capacity = 2 * map.capacity
            /\ (over /\ ~cok) => r.res = MAP_ALLOCATION_ERROR /\ r.map = map
            /\ (over /\ cok /\ ~new) =>
                  /\ r.res = MAP_SUCCESS
                  /\ r.map.size = map.size
                  /\ r.map.capacity = 2 * map.capacity
            /\ (map.capacity = INITIAL_CAPACITY /\ new /\ cok /\ mok) =>
                  /\ map.size = 11 =>
                        /\ r.res = MAP_SUCCESS
                        /\ r.map.size = 12
                        /\ r.map.capacity = 16
                  /\ map.size = 12 =>
                        /\ r.res = MAP_SUCCESS
                        /\ r.map.size = 13
                        /\ r.map.capacity = 32
                        /\ \A k \in FillStored \cup {key} :
                              map_get(r.map, k) = FillValue(k)

\* The map of capacity 16 after the 13th distinct key went in: capacity 32,
\* every key retrievable.
C20_Witness ==
    /\ handle = "live"
    /\ map.capacity = 32
    /\ Len(created) = 13
    /\ map.size = 13
    /\ Cardinality(FillStored) = 13
    /\ \A k \in FillStored : map_get(map, k) = FillValue(k)

\* C21 (key identity on overwrite): when map_insert finds an entry with an
\* equal key, the configured key destructor is called on the old key, once,
\* if the old and the new key are not the same pointer, and not at all if
\* they are; afterwards the entry holds the new key pointer and the new
\* value.  Without a key destructor no key is ever destroyed, by map_insert,
\* map_delete or map_destroy.
C21_KeyIdentity ==
    handle = "live" =>
        /\ \A a \in InsertArgs :
              \A r \in {DoInsert(a)} :
                  r.at = "overwrite" =>
                      LET old == EqualNode(map, a.key).key
                      IN  /\ r.kfreed = IF map.key_free_func /\ old # a.key
                                        THEN <<old>> ELSE <<>>
                          /\ EqualNode(r.map, a.key) =
                                [key |-> a.key, value |-> a.value]
                          /\ Cardinality(Nodes(r.map)) = Cardinality(Nodes(map))
        /\ ~map.key_free_func =>
              /\ \A p \in InsertKeys : kfree[p] = 0
              /\ \A a \in InsertArgs : DoInsert(a).kfreed = <<>>
              /\ \A k \in LookupKeys : map_delete(map, k).kfreed = <<>>
              /\ map_destroy(map).kfreed = <<>>

\* A map with a key destructor in which the caller may overwrite an entry
\* through the stored key pointer itself or through another pointer to an
\* equal key.
C21_Witness ==
    /\ handle = "live"
    /\ map.key_free_func
    /\ \E a1, a2 \in InsertArgs :
          /\ DoInsert(a1).at = "overwrite" /\ DoInsert(a2).at = "overwrite"
          /\ compare_int(a1.key, a2.key) = 0
          /\ a1.key \in StoredKeys(map)
          /\ a2.key \notin StoredKeys(map)
          /\ DoInsert(a1).kfreed = <<>>
          /\ DoInsert(a2).kfreed = <<a1.key>>

\* C22 (read-only operations): map_get, map_contains, map_size and
\* map_iterate (with a callback that does not touch the map) leave size,
\* capacity, the bucket array and every chain, with its order, as they were
\* and call no destructor, whether the key is found or not, on a NULL map,
\* with a NULL key or callback, and whether the callback stops or not.
C22_ReadOnly ==
    handle \in {"none", "live"} =>
        LET same(e) == /\ e.map = map
                       /\ e.map.size = map.size
                       /\ e.map.capacity = map.capacity
                       /\ e.map.buckets = map.buckets
                       /\ AllNodes(e.map) = AllNodes(map)
                       /\ e.kfreed = <<>> /\ e.vfreed = <<>>
        IN  /\ \A key \in LookupKeys \cup {NULL} :
                  /\ same(GetEffect(map, key))
                  /\ same(ContainsEffect(map, key))
            /\ same(SizeEffect(map))
            /\ \A cbn \in BOOLEAN, stop_at \in 0..NumContents :
                  same(IterateEffect(map, cbn, stop_at))

\* A map with destructors and a chain of two entries: map_get finds the
\* second one, and an iteration can stop between the two.
C22_Witness ==
    /\ handle = "live"
    /\ map.key_free_func /\ map.value_free_func
    /\ \E b \in DOMAIN map.buckets, k \in LookupKeys :
          /\ Len(map.buckets[b]) >= 2
          /\ compare_int(map.buckets[b][2].key, k) = 0
          /\ map_get(map, k) \in ValuePtrs
          /\ map_contains(map, k) = 1
    /\ map_iterate(map, FALSE, 1).res = MAP_FAILURE

====
